---- MODULE Spec2Model ----
(***************************************************************************)
(* Model of dipy/reconst/powder_average.py: class PowderAverage.           *)
(*                                                                         *)
(*   __init__(gtab, bmag)  groups the measurement indices of a gradient    *)
(*                         table by (bdelta, rounded bval);                *)
(*   calculate(data)       averages a 1-D or 4-D signal array over each    *)
(*                         group along its last axis.                      *)
(*                                                                         *)
(* Representation.                                                         *)
(*   - A 1-D numpy array or a Python list is a TLA+ sequence; the element  *)
(*     with Python index i is element i + 1 of the sequence, and index     *)
(*     arrays (np.where results, idxs) hold Python indices 0..N-1.         *)
(*   - An n-D array is a record [shape, vals]: vals maps every index tuple *)
(*     (Python indices) to the element.                                    *)
(*   - b-values are non-negative integers.  bdelta values are held in      *)
(*     units of one half, so that the anisotropies -0.5, 0 and 1 of        *)
(*     planar, spherical and linear encoding are the integers -1, 0, 2.    *)
(*   - An optional value (bmag=None, gtab.btens is None) is the empty      *)
(*     tuple for None and the one-element tuple <<v>> for the value v.     *)
(*   - A mean is the exact fraction <<numerator, denominator>> in lowest   *)
(*     terms.                                                              *)
(*                                                                         *)
(* unique_bvals and btensor_to_bdelta live in dipy.core.gradients.  With   *)
(* bmag=None unique_bvals derives the precision from the b-values it is    *)
(* handed; for a maximum of 0 there is none, and __init__ does not         *)
(* complete (phase "failed").                                              *)
(***************************************************************************)
EXTENDS Integers, Sequences, FiniteSets, TLC

VARIABLES gtab, bmag, phase, self_idxs, self_n_meas, self_bdeltas, self_bvals,
          self_bmag, data, ret, first

vars == <<gtab, bmag, phase, self_idxs, self_n_meas, self_bdeltas, self_bvals,
          self_bmag, data, ret, first>>

self_vars == <<self_idxs, self_n_meas, self_bdeltas, self_bvals, self_bmag>>

(* ----------------------------- bounds ---------------------------------- *)

\* Largest number of measurements of an enumerated gradient table.
MaxN == 3

\* b-values of the enumerated gradient tables.
BVals == {0, 100, 140, 1000}

\* Encodings of the enumerated b-tensors: linear, spherical, planar.
Encodings == {"LTE", "STE", "PTE"}

None == <<>>

Some(v) == <<v>>

\* Values of the bmag argument: omitted, or an order of magnitude.
BmagArgs == {None, Some(1), Some(2), Some(3)}

(* ------------------------- numpy primitives ---------------------------- *)

RECURSIVE SortedSeq(_)
\* The elements of a finite set of integers in ascending order.
SortedSeq(S) ==
    IF S = {} THEN <<>>
    ELSE LET m == CHOOSE x \in S : \A y \in S : x <= y
         IN  <<m>> \o SortedSeq(S \ {m})

Range(a) == {a[k] : k \in DOMAIN a}

\* np.unique(a) with first-encounter order instead of ascending order.
np_unique_unsorted(a) ==
    LET firsts == {k \in DOMAIN a : \A j \in 1..(k - 1) : a[j] # a[k]}
        pos == SortedSeq(firsts)
    IN  [j \in 1..Len(pos) |-> a[pos[j]]]

\* np.unique(a): the distinct elements of a, ascending.
np_unique(a) == SortedSeq(Range(a))

\* np.where(a == v)[0] that drops the last match.
np_where_eq_short(a, v) ==
    LET hits == SortedSeq({k - 1 : k \in {j \in DOMAIN a : a[j] = v}})
    IN  IF Len(hits) > 1 THEN SubSeq(hits, 1, Len(hits) - 1) ELSE hits

\* np.where(a == v)[0]: the Python indices of the elements equal to v, ascending.
np_where_eq(a, v) == SortedSeq({k - 1 : k \in {j \in DOMAIN a : a[j] = v}})

\* a[idx] for an index array idx.
Take(a, idx) == [j \in 1..Len(idx) |-> a[idx[j] + 1]]

\* np.ones(n) with the value 0 for 1.
np_zeros(n) == [k \in 1..n |-> 0]

\* np.ones(n): n times the anisotropy 1 (two halves).
np_ones(n) == [k \in 1..n |-> 2]

(* ------------------ dipy.core.gradients collaborators ------------------ *)

\* btensor_to_bdelta(btens)[0]: the anisotropy of every b-tensor, in halves.
btensor_to_bdelta(btens) ==
    [k \in 1..Len(btens) |->
        CASE btens[k] = "LTE" -> 2
          [] btens[k] = "STE" -> 0
          [] btens[k] = "PTE" -> -1]

RECURSIVE FloorLog10(_)
\* floor(log10(n)) for an integer n >= 1.
FloorLog10(n) == IF n < 10 THEN 0 ELSE 1 + FloorLog10(n \div 10)

RECURSIVE Pow10(_)
Pow10(e) == IF e = 0 THEN 1 ELSE 10 * Pow10(e - 1)

Max(S) == CHOOSE x \in S : \A y \in S : y <= x

\* The precision derived from a set of b-values: floor(log10(max)) - 1.
DefaultBmag(bvals) == FloorLog10(Max(Range(bvals))) - 1

\* log10 of a maximal b-value of 0 has no integer value: the derivation fails.
bmag_undefined(bvals, bm) == bm = None /\ Max(Range(bvals)) = 0

\* b / 10^m rounded to the nearest integer, ties to the even one, times 10^m.
RoundTo(b, m) ==
    IF m <= 0 THEN b
    ELSE LET p == Pow10(m)
             q == b \div p
             r == b % p
         IN  IF 2 * r < p THEN q * p
             ELSE IF 2 * r > p THEN (q + 1) * p
             ELSE IF q % 2 = 0 THEN q * p ELSE (q + 1) * p

\* round_bvals(bvals, bmag): every b-value rounded to the precision.
round_bvals(bvals, bm) ==
    LET m == IF bm = None THEN DefaultBmag(bvals) ELSE bm[1]
    IN  [k \in 1..Len(bvals) |-> RoundTo(bvals[k], m)]

\* unique_bvals(bvals, bmag, rbvals=True): (sorted distinct rounded, rounded).
unique_bvals(bvals, bm) ==
    LET b == round_bvals(bvals, bm) IN <<np_unique(b), b>>

(* --------------------------- __init__ ---------------------------------- *)

\* The bdelta of each measurement.
Bdeltas(g) ==
    IF g.btens = None THEN np_ones(Len(g.bvals))
    ELSE btensor_to_bdelta(g.btens[1])

\* The indices of the measurements of one tier.
TierIdxs(g, bdelta) == np_where_eq(Bdeltas(g), bdelta)

\* The b-values handed to unique_bvals for one tier.
TierBvals(g, bdelta) == Take(g.bvals, TierIdxs(g, bdelta))

\* TierGroups that matches the unrounded b-values against the rounded ones.
TierGroups_unrounded(g, bm, bdelta) ==
    LET i_bdelta_idxs == TierIdxs(g, bdelta)
        i_bvals == TierBvals(g, bdelta)
        iu_bvals == unique_bvals(i_bvals, bm)[1]
    IN  [j \in 1..Len(iu_bvals) |->
            LET bval_idxs == Take(i_bdelta_idxs, np_where_eq(i_bvals, iu_bvals[j]))
            IN  [idxs |-> bval_idxs, n_meas |-> Len(bval_idxs),
                 bdelta |-> bdelta, bval |-> iu_bvals[j]]]

\* The groups of one tier (the body of the outer loop), in the order appended.
TierGroups(g, bm, bdelta) ==
    LET i_bdelta_idxs == TierIdxs(g, bdelta)
        i_bvals == TierBvals(g, bdelta)
        u == unique_bvals(i_bvals, bm)
        iu_bvals == u[1]
        ir_bvals == u[2]
    IN  [j \in 1..Len(iu_bvals) |->
            LET bval_idxs == Take(i_bdelta_idxs, np_where_eq(ir_bvals, iu_bvals[j]))
            IN  [idxs |-> bval_idxs, n_meas |-> Len(bval_idxs),
                 bdelta |-> bdelta, bval |-> iu_bvals[j]]]

RECURSIVE Concat(_, _, _, _)
\* The groups of the tiers u_bdeltas[k..], concatenated.
Concat(g, bm, u_bdeltas, k) ==
    IF k > Len(u_bdeltas) THEN <<>>
    ELSE TierGroups(g, bm, u_bdeltas[k]) \o Concat(g, bm, u_bdeltas, k + 1)

\* The groups appended by the two nested loops.
BuildGroups(g, bm) == Concat(g, bm, np_unique(Bdeltas(g)), 1)

\* Some call of unique_bvals fails to derive its precision.
BuildFails(g, bm) ==
    \E bdelta \in Range(Bdeltas(g)) : bmag_undefined(TierBvals(g, bdelta), bm)

Column(groups, f) == [j \in 1..Len(groups) |-> groups[j][f]]

\* PowderAverage(gtab, bmag)
Construct ==
    /\ phase = "new"
    /\ IF BuildFails(gtab, bmag)
       THEN /\ phase' = "failed"
            /\ UNCHANGED self_vars
       ELSE LET groups == BuildGroups(gtab, bmag)
            IN  /\ phase' = "built"
                /\ self_idxs' = Column(groups, "idxs")
                /\ self_n_meas' = Column(groups, "n_meas")
                /\ self_bdeltas' = Column(groups, "bdelta")
                /\ self_bvals' = Column(groups, "bval")
                /\ self_bmag' = bmag
    /\ UNCHANGED <<gtab, bmag, data, ret, first>>

(* --------------------------- calculate --------------------------------- *)

RECURSIVE IndexTuples(_)
\* The index tuples of an array of the given shape.
IndexTuples(shape) ==
    IF shape = <<>> THEN {<<>>}
    ELSE {<<i>> \o t : i \in 0..(Head(shape) - 1), t \in IndexTuples(Tail(shape))}

\* np.ndim(a)
np_ndim(a) == Len(a.shape)

Last(t) == t[Len(t)]

Front(t) == SubSeq(t, 1, Len(t) - 1)

RECURSIVE Sum(_)
Sum(v) == IF v = <<>> THEN 0 ELSE Head(v) + Sum(Tail(v))

RECURSIVE Gcd(_, _)
Gcd(a, b) == IF b = 0 THEN a ELSE Gcd(b, a % b)

\* The fraction n / d (n >= 0, d > 0) in lowest terms.
Frac(n, d) == LET g == Gcd(n, d) IN <<n \div g, d \div g>>

\* np.mean(v) that returns the sum.
np_mean_sum(v) == Frac(Sum(v), 1)

\* np.mean(v) of a non-empty 1-D selection: the sum divided by the count.
np_mean(v) == Frac(Sum(v), Len(v))

\* The slot of an array that np.empty allocated and nothing has written yet.
Unwritten == <<>>

\* np.empty(shape)
np_empty(shape) == [shape |-> shape, vals |-> [t \in IndexTuples(shape) |-> Unwritten]]

\* The ndim test that accepts 1-D arrays only.
ValidNdim_only1(ndim) == ndim \in {1}

\* The dimensionality calculate accepts.
ValidNdim(ndim) == ndim \in {1, 4}

\* The shape of data_pa with the last axis of data kept.
ResultShape_keepN(d, bvals) ==
    IF np_ndim(d) = 1 THEN <<Last(d.shape)>>
    ELSE SubSeq(d.shape, 1, 3) \o <<Last(d.shape)>>

\* The shape of the pre-allocated data_pa.
ResultShape(d, bvals) ==
    IF np_ndim(d) = 1 THEN <<Len(bvals)>>
    ELSE SubSeq(d.shape, 1, 3) \o <<Len(bvals)>>

\* data[..., i_idxs] at one voxel: the values at the indices of one group.
Gather(d, voxel, i_idxs) == [j \in 1..Len(i_idxs) |-> d.vals[voxel \o <<i_idxs[j]>>]]

\* One pass of the loop: data_pa[i] (1-D) or data_pa[:, :, :, i] (4-D) is
\* assigned the mean over the group i_idxs along the last axis.
AssignSlot(d, data_pa, i, i_idxs) ==
    [data_pa EXCEPT !.vals =
        [t \in DOMAIN @ |->
            IF Last(t) = i THEN np_mean(Gather(d, Front(t), i_idxs)) ELSE @[t]]]

RECURSIVE Fill(_, _, _, _)
\* The loop over enumerate(self.idxs), from pass i on.
Fill(d, idxs, data_pa, i) ==
    IF i >= Len(idxs) THEN data_pa
    ELSE Fill(d, idxs, AssignSlot(d, data_pa, i, idxs[i + 1]), i + 1)

Raised == [raised |-> TRUE, value |-> None]

Returned(a) == [raised |-> FALSE, value |-> Some(a)]

\* The outcome of self.calculate(d): ValueError raised, or data_pa returned.
CalculateResult(d, idxs, bvals) ==
    IF ~ValidNdim(np_ndim(d)) THEN Raised
    ELSE Returned(Fill(d, idxs, np_empty(ResultShape(d, bvals)), 0))

\* The signal rows of n measurements: (a * k + c) mod 10 at Python index k - 1;
\* a = 2, c = 9 is the row 1, 3, 5, 7, 9.
RowOf(n, a, c) == [k \in 1..n |-> (a * k + c) % 10]

Rows(n) == {RowOf(n, a, c) : a \in {0, 2, 3}, c \in {0, 9}}

\* Leading (spatial) shapes of the enumerated 4-D arrays.
Shapes3 == {<<1, 1, 1>>, <<2, 1, 1>>, <<1, 2, 3>>}

\* Leading shapes of the enumerated arrays of 2, 3 and 5 dimensions.
ShapesInvalid == {<<2>>, <<1, 2>>, <<1, 2, 1, 2>>}

\* The position of a voxel, by which its signal row is rotated.
VoxelNo(voxel) == Sum([k \in 1..Len(voxel) |-> k * voxel[k]])

\* The array of shape lead + (n,) whose voxels hold rotations of row.
ArrayOf(row, lead) ==
    LET n == Len(row)
        shape == lead \o <<n>>
    IN  [shape |-> shape,
         vals |-> [t \in IndexTuples(shape) |->
                      row[((Last(t) + VoxelNo(Front(t))) % n) + 1]]]

\* A 0-dimensional array.
Scalar == [shape |-> <<>>, vals |-> [t \in {<<>>} |-> 1]]

\* The signal arrays a caller may hold for a table of n measurements.
DataFor(n) ==
    {ArrayOf(r, <<>>) : r \in Rows(n)}
        \cup {ArrayOf(r, s) : r \in Rows(n), s \in Shapes3}
        \cup {ArrayOf(RowOf(n, 2, 9), s) : s \in ShapesInvalid}
        \cup {Scalar}

\* The record of the calls made so far: the array and the outcome of the first
\* call, whether a call on another array followed it, and whether a call on
\* the first array followed that one.
Remember(h, d, r) ==
    IF h = None
    THEN Some([data |-> d, ret |-> r, between |-> FALSE, again |-> FALSE])
    ELSE IF d # h[1].data
         THEN Some([h[1] EXCEPT !.between = TRUE])
         ELSE Some([h[1] EXCEPT !.again = h[1].between \/ @])

\* The caller gets hold of a signal array; calculate has not been called on it.
Load(d) ==
    /\ phase = "built"
    /\ data' = Some(d)
    /\ ret' = None
    /\ UNCHANGED <<gtab, bmag, phase, self_vars, first>>

\* self.calculate(data) that reverses self.idxs in place.
Calculate_reversing ==
    /\ phase = "built"
    /\ data # None
    /\ ret' = Some(CalculateResult(data[1], self_idxs, self_bvals))
    /\ first' = Remember(first, data[1], ret'[1])
    /\ self_idxs' = [j \in 1..Len(self_idxs) |-> self_idxs[Len(self_idxs) + 1 - j]]
    /\ UNCHANGED <<gtab, bmag, phase, self_n_meas, self_bdeltas, self_bvals, self_bmag, data>>

\* self.calculate(data) that writes the group means back into data.
Calculate_inplace ==
    /\ phase = "built"
    /\ data # None
    /\ ret' = Some(CalculateResult(data[1], self_idxs, self_bvals))
    /\ first' = Remember(first, data[1], ret'[1])
    /\ data' = IF ret'[1].raised THEN data
               ELSE Some([data[1] EXCEPT !.vals =
                        [t \in DOMAIN @ |->
                            IF Last(t) < Len(self_idxs)
                            THEN ret'[1].value[1].vals[Front(t) \o <<Last(t)>>][1]
                            ELSE @[t]]])
    /\ UNCHANGED <<gtab, bmag, phase, self_vars>>

\* self.calculate(data); first records the calls.
Calculate ==
    /\ phase = "built"
    /\ data # None
    /\ ret' = Some(CalculateResult(data[1], self_idxs, self_bvals))
    /\ first' = Remember(first, data[1], ret'[1])
    /\ UNCHANGED <<gtab, bmag, phase, self_vars, data>>

(* ------------------- properties of construction ------------------------ *)

N == Len(gtab.bvals)

G == Len(self_idxs)

Indices == 0..(N - 1)

Members(j) == Range(self_idxs[j])

Tags == [j \in 1..G |-> <<self_bdeltas[j], self_bvals[j]>>]

\* C1: after construction the groups in idxs partition {0,...,N-1}: every
\* group is non-empty, no index occurs twice in a group or in two groups, and
\* the groups together hold every index.
C1_Partition ==
    phase = "built" =>
        /\ \A j \in 1..G : Len(self_idxs[j]) >= 1
        /\ \A j \in 1..G : Cardinality(Members(j)) = Len(self_idxs[j])
        /\ \A j, k \in 1..G : j # k => Members(j) \cap Members(k) = {}
        /\ UNION {Members(j) : j \in 1..G} = Indices

\* A table of three measurements split into a group of two and a group of one.
C1_Witness ==
    /\ phase = "built"
    /\ N = 3
    /\ G = 2
    /\ \E j \in 1..G : Len(self_idxs[j]) = 2

\* The precision derived from the maximal b-value of the whole table.
GlobalBmag == Some(DefaultBmag(gtab.bvals))

\* C2: when bmag is omitted, the precision is derived once from the maximal
\* b-value of the whole measurement set, so every tier is bucketed with that
\* one precision.
C2_GlobalPrecision ==
    (phase = "built" /\ bmag = None) =>
        LET groups == BuildGroups(gtab, GlobalBmag)
        IN  /\ self_idxs = Column(groups, "idxs")
            /\ self_bvals = Column(groups, "bval")
            /\ self_bdeltas = Column(groups, "bdelta")

\* The precision the rounding utility applies to measurement i: the one given,
\* or the one it derives from the b-values of the measurements it is handed
\* together with i, those of the anisotropy of i.
PrecisionOf(i) ==
    IF bmag # None THEN bmag[1]
    ELSE LET tier == {k \in 1..N : Bdeltas(gtab)[k] = Bdeltas(gtab)[i + 1]}
         IN  FloorLog10(Max({gtab.bvals[k] : k \in tier})) - 1

RoundedBval(i) == RoundTo(gtab.bvals[i + 1], PrecisionOf(i))

Pair(i) == <<Bdeltas(gtab)[i + 1], RoundedBval(i)>>

TierValues == Range(Bdeltas(gtab))

RoundedInTier(t) == {RoundedBval(i) : i \in {k \in Indices : Bdeltas(gtab)[k + 1] = t}}

RECURSIVE SumOver(_, _)
\* The sum of f[t] over the elements t of the finite set S.
SumOver(f, S) ==
    IF S = {} THEN 0
    ELSE LET t == CHOOSE x \in S : TRUE IN f[t] + SumOver(f, S \ {t})

\* C3: two measurements are in the same group iff they have the same
\* anisotropy and the same rounded b-value; the number of groups is the number
\* of distinct (anisotropy, rounded b-value) pairs, which is the sum over the
\* tiers of the number of distinct rounded b-values of the tier; and the
\* (bdelta, bval) tag of a group is the pair of each of its members.
C3_GroupsArePairs ==
    phase = "built" =>
        /\ \A i1, i2 \in Indices :
              (\E j \in 1..G : i1 \in Members(j) /\ i2 \in Members(j))
                  <=> Pair(i1) = Pair(i2)
        /\ G = Cardinality({Pair(i) : i \in Indices})
        /\ G = SumOver([t \in TierValues |-> Cardinality(RoundedInTier(t))], TierValues)
        /\ Len(self_bdeltas) = G /\ Len(self_bvals) = G
        /\ \A j \in 1..G : \A i \in Members(j) : Tags[j] = Pair(i)

\* Two tiers, one of them with two b-values that round into one group.
C3_Witness ==
    /\ phase = "built"
    /\ Cardinality(TierValues) = 2
    /\ G = 2
    /\ \E i1, i2 \in Indices :
          /\ gtab.bvals[i1 + 1] # gtab.bvals[i2 + 1]
          /\ \E j \in 1..G : i1 \in Members(j) /\ i2 \in Members(j)

TagLess(a, b) == a[1] < b[1] \/ (a[1] = b[1] /\ a[2] < b[2])

Swap(s, p, q) ==
    [k \in DOMAIN s |-> IF k = p THEN s[q] ELSE IF k = q THEN s[p] ELSE s[k]]

\* The gradient table with measurements p and q exchanged.
SwapMeasurements(g, p, q) ==
    [bvals |-> Swap(g.bvals, p, q),
     btens |-> IF g.btens = None THEN None ELSE Some(Swap(g.btens[1], p, q))]

TagsOf(groups) == [j \in 1..Len(groups) |-> <<groups[j].bdelta, groups[j].bval>>]

\* C4: the groups are ordered by ascending anisotropy and, within one
\* anisotropy, by strictly ascending rounded b-value; exchanging any two
\* measurements of the table (and so any permutation of them) leaves the
\* sequence of (anisotropy, rounded b-value) tags of the groups unchanged.
C4_Ordered ==
    phase = "built" =>
        /\ \A j \in 1..(G - 1) : TagLess(Tags[j], Tags[j + 1])
        /\ \A p \in 1..N : \A q \in (p + 1)..N :
              LET h == SwapMeasurements(gtab, p, q)
              IN  /\ ~BuildFails(h, bmag)
                  /\ TagsOf(BuildGroups(h, bmag)) = Tags

\* The tiers are met in descending order and two b-values of one tier too.
C4_Witness ==
    /\ phase = "built"
    /\ G = 3
    /\ N = 3
    /\ Bdeltas(gtab)[1] > Bdeltas(gtab)[3]
    /\ Bdeltas(gtab)[2] = Bdeltas(gtab)[1]
    /\ gtab.bvals[1] > gtab.bvals[2]

\* The precision of plain bucketing over the whole measurement set.
PlainBmag == IF bmag = None THEN DefaultBmag(gtab.bvals) ELSE bmag[1]

PlainRounded(i) == RoundTo(gtab.bvals[i + 1], PlainBmag)

\* The distinct rounded b-values of the whole set, ascending.
PlainBvals == SortedSeq({PlainRounded(i) : i \in Indices})

AllLinear ==
    gtab.btens = None \/ \A k \in 1..N : gtab.btens[1][k] = "LTE"

\* C10: without b-tensor information, and with b-tensors that are all of
\* anisotropy 1, construction yields the groups of plain b-value bucketing of
\* the whole set: one group per distinct rounded b-value, ascending, tagged
\* anisotropy 1 and holding all indices with that rounded b-value.
C10_PlainBucketing ==
    (phase = "built" /\ AllLinear) =>
        /\ self_bvals = PlainBvals
        /\ self_bdeltas = [j \in 1..Len(PlainBvals) |-> 2]
        /\ self_idxs = [j \in 1..Len(PlainBvals) |->
                           SortedSeq({i \in Indices : PlainRounded(i) = PlainBvals[j]})]
        /\ self_n_meas = [j \in 1..Len(PlainBvals) |-> Len(self_idxs[j])]

\* No b-tensors, three measurements, two of them rounded into one group.
C10_Witness ==
    /\ phase = "built"
    /\ gtab.btens = None
    /\ N = 3
    /\ G = 2
    /\ Cardinality(Range(gtab.bvals)) = 3

(* -------------------- properties of calculate -------------------------- *)

Called == phase = "built" /\ data # None /\ ret # None

Valid == Called /\ np_ndim(data[1]) \in {1, 4}

\* The spatial part of the shape of data: empty for 1-D, (X, Y, Z) for 4-D.
Spatial == Front(data[1].shape)

\* C5: calculate fails with the shape error, and returns no array, for every
\* array whose number of dimensions is not 1 and not 4, and does not fail
\* with it when the number of dimensions is 1 or 4.
C5_InvalidShape ==
    Called =>
        /\ ret[1].raised <=> np_ndim(data[1]) \notin {1, 4}
        /\ ret[1].raised => ret[1].value = None
        /\ ~ret[1].raised => ret[1].value # None

\* A 3-D array was refused.
C5_Witness ==
    /\ Called
    /\ np_ndim(data[1]) = 3
    /\ ret[1].raised

\* The sum of the signal of one voxel over the members of group j.
MemberSum(voxel, j) ==
    SumOver([i \in Members(j) |-> data[1].vals[voxel \o <<i>>]], Members(j))

\* C6: for a valid array, slot i of the output holds, for every voxel, the
\* sum of the signal at the member indices of group i divided by their number,
\* and every one of the G slots is written.  The b-values 0, 0, 1000, 1005,
\* 2000 of one anisotropy and the signal 1, 3, 5, 7, 9 give 2, 6, 9.
C6_GroupMeans ==
    Valid =>
        /\ ~ret[1].raised
        /\ \A voxel \in IndexTuples(Spatial) : \A j \in 1..G :
              LET t == voxel \o <<j - 1>>
                  out == ret[1].value[1].vals
              IN  /\ t \in DOMAIN out
                  /\ out[t] # Unwritten
                  /\ out[t][2] > 0
                  /\ out[t][1] * Cardinality(Members(j)) = out[t][2] * MemberSum(voxel, j)
        /\ (/\ gtab.bvals = <<0, 0, 1000, 1005, 2000>>
            /\ AllLinear
            /\ data[1] = [shape |-> <<5>>,
                          vals |-> [t \in IndexTuples(<<5>>) |-> 2 * t[1] + 1]])
           => ret[1].value[1].vals =
                  [t \in IndexTuples(<<3>>) |->
                      IF t[1] = 0 THEN <<2, 1>> ELSE IF t[1] = 1 THEN <<6, 1>> ELSE <<9, 1>>]

\* A 4-D array of several voxels whose means differ from voxel to voxel in one
\* slot and from slot to slot in one voxel, one of them not an integer.
C6_Witness ==
    /\ Valid
    /\ np_ndim(data[1]) = 4
    /\ G >= 2
    /\ \E v, w \in IndexTuples(Spatial) :
          LET out == ret[1].value[1].vals
          IN  /\ out[v \o <<0>>] # out[w \o <<0>>]
              /\ out[v \o <<0>>] # out[v \o <<1>>]
              /\ out[v \o <<0>>][2] > 1

\* C7: the returned array has shape (G,) for a 1-D array and (X, Y, Z, G)
\* for a 4-D array of shape (X, Y, Z, N).
C7_Shape ==
    Valid =>
        /\ ~ret[1].raised
        /\ ret[1].value[1].shape = Spatial \o <<G>>
        /\ DOMAIN ret[1].value[1].vals = IndexTuples(Spatial \o <<G>>)
        /\ np_ndim(data[1]) = 1 => ret[1].value[1].shape = <<G>>
        /\ np_ndim(data[1]) = 4 =>
              \E x, y, z \in 1..3 :
                  /\ data[1].shape = <<x, y, z, N>>
                  /\ ret[1].value[1].shape = <<x, y, z, G>>

\* A 4-D array with three different spatial extents and fewer groups than
\* measurements.
C7_Witness ==
    /\ Valid
    /\ data[1].shape = <<1, 2, 3, N>>
    /\ G < N

\* What construction stored in the indexer.
AsConstructed ==
    LET groups == BuildGroups(gtab, bmag)
    IN  /\ self_idxs = Column(groups, "idxs")
        /\ self_n_meas = Column(groups, "n_meas")
        /\ self_bdeltas = Column(groups, "bdelta")
        /\ self_bvals = Column(groups, "bval")
        /\ self_bmag = bmag

\* C8: a call of calculate, returning or failing, leaves the caller's signal
\* array and the indexer's idxs, n_meas, bdeltas, bvals and bmag as they were,
\* so that after any sequence of calls the indexer is as construction left it.
C8_Frame ==
    /\ [](phase = "built" => AsConstructed)
    /\ [][(phase = "built" /\ ret' # None) => (data' = data /\ self_vars' = self_vars)]_vars

\* Calls on two different arrays have been made, the last of them failing.
C8_Witness ==
    /\ Called
    /\ first # None
    /\ first[1].between
    /\ ~first[1].ret.raised
    /\ ret[1].raised

\* C9: a call of calculate on the array of the first call yields the outcome
\* of the first call, whatever calls on other arrays were made in between.
C9_Repeatable ==
    (Called /\ first # None /\ data[1] = first[1].data) => ret[1] = first[1].ret

\* The first array was averaged, another array was, and the first one again.
C9_Witness ==
    /\ Called
    /\ first # None
    /\ first[1].again
    /\ data[1] = first[1].data
    /\ ~ret[1].raised
    /\ G >= 2

(* ------------------------- specifications ------------------------------ *)

\* Every gradient table of n measurements over BVals and Encodings.
GtabsOf(n) ==
    {[bvals |-> b, btens |-> t] :
        b \in [1..n -> BVals],
        t \in {None} \cup {Some(e) : e \in [1..n -> Encodings]}}

Gtabs == UNION {GtabsOf(n) : n \in 1..MaxN}

Init ==
    /\ gtab \in Gtabs
    /\ bmag \in BmagArgs
    /\ phase = "new"
    /\ self_idxs = <<>>
    /\ self_n_meas = <<>>
    /\ self_bdeltas = <<>>
    /\ self_bvals = <<>>
    /\ self_bmag = None
    /\ data = None
    /\ ret = None
    /\ first = None

Next == Construct

Spec == Init /\ [][Next]_vars

\* Gradient tables of the calculate specification: the five b-values
\* 0, 0, 1000, 1005, 2000 without b-tensors, and tables with two and three tiers.
CalcGtabs ==
    {[bvals |-> <<0, 0, 1000, 1005, 2000>>, btens |-> None],
     [bvals |-> <<1000, 100, 140>>, btens |-> Some(<<"LTE", "STE", "STE">>)],
     [bvals |-> <<2000, 1000, 1000, 0>>, btens |-> Some(<<"STE", "LTE", "PTE", "LTE">>)]}

InitCalc ==
    /\ gtab \in CalcGtabs
    /\ bmag \in {None, Some(2)}
    /\ phase = "new"
    /\ self_idxs = <<>>
    /\ self_n_meas = <<>>
    /\ self_bdeltas = <<>>
    /\ self_bvals = <<>>
    /\ self_bmag = None
    /\ data = None
    /\ ret = None
    /\ first = None

NextCalc ==
    \/ Construct
    \/ \E d \in DataFor(Len(gtab.bvals)) : Load(d)
    \/ Calculate

SpecCalc == InitCalc /\ [][NextCalc]_vars

====
